---- MODULE Spec2Model ----
(***************************************************************************)
(* The recipe browser of API-AppReceitas: the two App components of the    *)
(* repository, the client-paginated one (src/API-AppReceitas/src/App.tsx)  *)
(* and the server-paginated one (src/unnamed/part_000), as one state       *)
(* machine. `variant` says which of the two components is mounted.         *)
(*                                                                         *)
(* A recipe is modelled by its id, the rank it has in the list the API     *)
(* holds for the request. A fetch is a record of the request parameters    *)
(* the URL was built from; it stays in `inflight` from the `await fetch`   *)
(* to the continuation that applies its outcome.                           *)
(***************************************************************************)
EXTENDS Integers, Sequences, FiniteSets, TLC

\* ------------------------------------------------------------- bounds
\* the largest data.total / recipe list the API answers with
MaxTotal == 13
\* the number of fetches dispatched in one run (mount included)
MaxFetches == 3

\* ------------------------------------------------- program constants
RECIPES_PER_PAGE == 6
\* useState<Recipe | null>(null): no recipe selected
NoRecipe == 0
\* the `limit=0` of the client variant's URL: every item
LimitAll == 0

\* useState<string | null>(null): a message is a sequence of the parts of
\* the template literal; null (and the falsy "") is the empty sequence
NoError == <<>>

Variants == {"client", "server"}
\* what the user types into the search input
SearchTexts == {"", "pizza"}
\* the <option> values of the two <select>s
SortFields == {"name", "rating", "difficulty"}
SortOrders == {"asc", "desc"}
\* the non-2xx statuses the API answers with
ErrStatuses == {404, 500}
\* the totals the search/listing endpoint answers with: nothing, one page,
\* two pages, MaxTotal
ServerTotals == {0, 5, 7, MaxTotal}
\* the list lengths the `limit=0` listing answers with
ClientTotals == 0..MaxTotal
\* where a click inside the detail overlay lands
ClickTargets == {"overlay", "content", "closeButton"}

VARIABLES
    variant,        \* which App component is mounted
    mounted,        \* whether the mount effect has run
    recipes,        \* useState<Recipe[]>([])
    loading,        \* useState(true)
    error,          \* useState<string | null>(null)
    currentPage,    \* useState(1)
    totalPages,     \* useState(0) (server variant only)
    searchQuery,    \* useState("")
    sortBy,         \* useState("name")
    sortOrder,      \* useState("asc")
    selectedRecipe, \* useState<Recipe | null>(null)
    inflight,       \* the fetches awaiting their response
    nFetches,       \* history: the number of fetches dispatched so far
    resultOf,       \* history: the fetch whose outcome was applied last
    hist            \* history: the last step, the page and the number of
                    \* recipes it started from

vars == <<variant, mounted, recipes, loading, error, currentPage, totalPages,
          searchQuery, sortBy, sortOrder, selectedRecipe, inflight, nFetches,
          resultOf, hist>>

queryVars == <<currentPage, searchQuery, sortBy, sortOrder>>
resultVars == <<recipes, loading, error, totalPages>>

\* ------------------------------------------------------------ helpers
Min(a, b) == IF a < b THEN a ELSE b
Max(a, b) == IF a > b THEN a ELSE b

\* Math.floor in the place of Math.ceil
MathFloorDiv(n, d) == n \div d

\* Math.ceil(n / d) for n >= 0, d > 0
MathCeilDiv(n, d) == IF n % d = 0 THEN n \div d ELSE (n \div d) + 1

\* Array.prototype.slice(start, end): negative indices count from the end,
\* both are clamped to [0, length]
Slice(s, start, end) ==
    LET len == Len(s)
        from == IF start < 0 THEN Max(len + start, 0) ELSE Min(start, len)
        to == IF end < 0 THEN Max(len + end, 0) ELSE Min(end, len)
    IN  IF from < to THEN SubSeq(s, from + 1, to) ELSE <<>>

\* `HTTP error! status: ${response.status}`
HttpErrorMessage(status) == <<"HTTP error! status: ", ToString(status)>>
\* the message of the TypeError fetch() rejects with
TransportMessage == <<"Failed to fetch">>

\* what the await throws: an Error (the only thing fetch and json reject with)
HttpError(status) == [isError |-> TRUE, message |-> HttpErrorMessage(status)]
TransportError == [isError |-> TRUE, message |-> TransportMessage]
Thrown == {HttpError(s) : s \in ErrStatuses} \cup {TransportError}

\* the catch block's choice of message
CatchMessage(e) ==
    IF e.isError THEN e.message ELSE <<"Ocorreu um erro desconhecido">>

\* the list the API holds for a request whose total is n: ranks 1..n
Catalog(n) == [i \in 1..n |-> i]

\* the API's answer to limit/skip over the list it holds (limit=0: all)
ApiPage(all, limit, skip) ==
    IF limit = LimitAll THEN all
    ELSE IF skip >= Len(all) THEN <<>>
    ELSE SubSeq(all, skip + 1, Min(skip + limit, Len(all)))

\* ------------------------------------------------------ initial state
\* the useState initial values of either component, before its mount effect
Init ==
    /\ variant \in Variants
    /\ mounted = FALSE
    /\ recipes = <<>>
    /\ loading = TRUE
    /\ error = NoError
    /\ currentPage = 1
    /\ totalPages = 0
    /\ searchQuery = ""
    /\ sortBy = "name"
    /\ sortOrder = "asc"
    /\ selectedRecipe = NoRecipe
    /\ inflight = {}
    /\ nFetches = 0
    /\ resultOf = 0
    /\ hist = [op |-> "init", page |-> 1, len |-> 0]

\* ============================================ server-paginated variant
\* const skip = (currentPage - 1) * RECIPES_PER_PAGE
Skip(page) == (page - 1) * RECIPES_PER_PAGE

\* the URL of the request, by its parts: the search path when searchQuery
\* is truthy, the listing path otherwise
Url(page, q, sb, so) ==
    IF q # ""
    THEN [path |-> "/recipes/search", q |-> q, limit |-> RECIPES_PER_PAGE,
          skip |-> Skip(page), sortBy |-> sb, order |-> so]
    ELSE [path |-> "/recipes", q |-> "", limit |-> RECIPES_PER_PAGE,
          skip |-> Skip(page), sortBy |-> sb, order |-> so]

\* a fetch awaiting its response: the request and the order of its dispatch
Fetch(id, url) == [id |-> id, url |-> url]

\* setLoading(...) at the start of fetchRecipes
LoadingAtStart == FALSE

\* fetchRecipes aborting the fetches dispatched before it
FetchRecipesStartCancelling(page, q, sb, so) ==
    /\ error' = NoError
    /\ loading' = LoadingAtStart
    /\ inflight' = {Fetch(nFetches + 1, Url(page, q, sb, so))}
    /\ nFetches' = nFetches + 1

\* fetchRecipes up to `await fetch(url)`, with the values the effect's
\* closure captured
FetchRecipesStart(page, q, sb, so) ==
    /\ error' = NoError
    /\ loading' = LoadingAtStart
    /\ inflight' = inflight \cup {Fetch(nFetches + 1, Url(page, q, sb, so))}
    /\ nFetches' = nFetches + 1

\* the effect's dependency array: it runs again when one of them changed
RunEffect(page, q, sb, so) ==
    IF <<page, q, sb, so>> # <<currentPage, searchQuery, sortBy, sortOrder>>
    THEN FetchRecipesStart(page, q, sb, so)
    ELSE UNCHANGED <<error, loading, inflight, nFetches>>

\* the two early returns of the render: the controls, the cards, the
\* pagination and the overlay are rendered only past them
Rendered == mounted /\ ~loading /\ error = NoError

\* {totalPages > 1 && ( <div className="pagination"> ... )}
PaginationShown == Rendered /\ totalPages > 1
PrevEnabled == PaginationShown /\ currentPage # 1
NextEnabled == PaginationShown /\ currentPage # totalPages

\* {selectedRecipe && ( <RecipeDetail ... /> )}
OverlayOpen == Rendered /\ selectedRecipe # NoRecipe

\* the first run of the effect
ServerMount ==
    /\ variant = "server"
    /\ ~mounted
    /\ mounted' = TRUE
    /\ FetchRecipesStart(currentPage, searchQuery, sortBy, sortOrder)
    /\ hist' = [op |-> "mount", page |-> currentPage, len |-> Len(recipes)]
    /\ UNCHANGED <<variant, recipes, totalPages, queryVars, selectedRecipe,
                   resultOf>>

\* handleSearchChange without its setCurrentPage(1)
HandleSearchChangeKeepsPage(value) ==
    /\ searchQuery' = value
    /\ UNCHANGED currentPage
    /\ RunEffect(currentPage, value, sortBy, sortOrder)

\* setSearchQuery(e.target.value); setCurrentPage(1); then the effect
HandleSearchChange(value) ==
    /\ searchQuery' = value
    /\ currentPage' = 1
    /\ RunEffect(1, value, sortBy, sortOrder)

SearchChange(value) ==
    /\ variant = "server"
    /\ Rendered
    /\ value # searchQuery
    /\ nFetches < MaxFetches
    /\ HandleSearchChange(value)
    /\ hist' = [op |-> "search", page |-> currentPage, len |-> Len(recipes)]
    /\ UNCHANGED <<variant, mounted, recipes, totalPages, sortBy, sortOrder,
                   selectedRecipe, resultOf>>

\* onChange={(e) => setSortBy(e.target.value)}; then the effect
SortByChange(value) ==
    /\ variant = "server"
    /\ Rendered
    /\ value # sortBy
    /\ nFetches < MaxFetches
    /\ sortBy' = value
    /\ RunEffect(currentPage, searchQuery, value, sortOrder)
    /\ hist' = [op |-> "sort", page |-> currentPage, len |-> Len(recipes)]
    /\ UNCHANGED <<variant, mounted, recipes, totalPages, currentPage,
                   searchQuery, sortOrder, selectedRecipe, resultOf>>

\* onChange={(e) => setSortOrder(e.target.value)}; then the effect
SortOrderChange(value) ==
    /\ variant = "server"
    /\ Rendered
    /\ value # sortOrder
    /\ nFetches < MaxFetches
    /\ sortOrder' = value
    /\ RunEffect(currentPage, searchQuery, sortBy, value)
    /\ hist' = [op |-> "sort", page |-> currentPage, len |-> Len(recipes)]
    /\ UNCHANGED <<variant, mounted, recipes, totalPages, currentPage,
                   searchQuery, sortBy, selectedRecipe, resultOf>>

\* setCurrentPage(p => Math.max(p - 1, 1))
PrevPage(p) == Max(p - 1, 1)
\* setCurrentPage(p => Math.min(p + 1, totalPages))
NextPage(p, total) == Min(p + 1, total)

ServerPrev ==
    /\ variant = "server"
    /\ PrevEnabled
    /\ nFetches < MaxFetches
    /\ currentPage' = PrevPage(currentPage)
    /\ RunEffect(PrevPage(currentPage), searchQuery, sortBy, sortOrder)
    /\ hist' = [op |-> "prev", page |-> currentPage, len |-> Len(recipes)]
    /\ UNCHANGED <<variant, mounted, recipes, totalPages, searchQuery,
                   sortBy, sortOrder, selectedRecipe, resultOf>>

ServerNext ==
    /\ variant = "server"
    /\ NextEnabled
    /\ nFetches < MaxFetches
    /\ currentPage' = NextPage(currentPage, totalPages)
    /\ RunEffect(NextPage(currentPage, totalPages), searchQuery, sortBy,
                 sortOrder)
    /\ hist' = [op |-> "next", page |-> currentPage, len |-> Len(recipes)]
    /\ UNCHANGED <<variant, mounted, recipes, totalPages, searchQuery,
                   sortBy, sortOrder, selectedRecipe, resultOf>>

\* const data = await response.json()
ApiData(f, total) ==
    [recipes |-> ApiPage(Catalog(total), f.url.limit, f.url.skip),
     total |-> total]

\* setRecipes(data.recipes); setTotalPages(Math.ceil(data.total / RECIPES_PER_PAGE))
TryBlock(data) ==
    /\ recipes' = data.recipes
    /\ totalPages' = MathCeilDiv(data.total, RECIPES_PER_PAGE)
    /\ UNCHANGED error

\* the catch block without its setRecipes([])
CatchBlockKeepsRecipes(e) ==
    /\ error' = CatchMessage(e)
    /\ UNCHANGED recipes
    /\ totalPages' = 0

\* setError(...); setRecipes([]); setTotalPages(0)
CatchBlock(e) ==
    /\ error' = CatchMessage(e)
    /\ recipes' = <<>>
    /\ totalPages' = 0

\* the continuation of fetchRecipes applies its outcome, whichever fetch
\* of the in-flight ones it belongs to
Applies(f) == f \in inflight

\* response.ok, the body parsed: the try block, then finally
FetchRecipesOk(f, total) ==
    /\ variant = "server"
    /\ Applies(f)
    /\ TryBlock(ApiData(f, total))
    /\ loading' = FALSE
    /\ inflight' = inflight \ {f}
    /\ resultOf' = f.id
    /\ hist' = [op |-> "ok", page |-> currentPage, len |-> Len(recipes)]
    /\ UNCHANGED <<variant, mounted, queryVars, selectedRecipe, nFetches>>

\* !response.ok, or fetch/json rejected: the catch block, then finally
FetchRecipesFail(f, e) ==
    /\ variant = "server"
    /\ Applies(f)
    /\ CatchBlock(e)
    /\ loading' = FALSE
    /\ inflight' = inflight \ {f}
    /\ resultOf' = f.id
    /\ hist' = [op |-> "fail", page |-> currentPage, len |-> Len(recipes)]
    /\ UNCHANGED <<variant, mounted, queryVars, selectedRecipe, nFetches>>

\* <div className="recipe-card" onClick={() => onCardClick(recipe)}>
CardClick(r) ==
    /\ variant = "server"
    /\ Rendered
    /\ \E i \in 1..Len(recipes) : recipes[i] = r
    /\ selectedRecipe' = r
    /\ hist' = [op |-> "card", page |-> currentPage, len |-> Len(recipes)]
    /\ UNCHANGED <<variant, mounted, resultVars, queryVars, inflight,
                   nFetches, resultOf>>

\* the elements a click event visits, from its target outwards
BubblePath(target) ==
    CASE target = "closeButton" -> <<"closeButton", "content", "overlay">>
      [] target = "content" -> <<"content", "overlay">>
      [] target = "overlay" -> <<"overlay">>

\* RecipeDetail without the stopPropagation of its content
OnClickNoStop(element) ==
    CASE element = "overlay" -> "onClose"
      [] element = "content" -> "none"
      [] element = "closeButton" -> "onClose"

\* the onClick of each element of RecipeDetail
OnClick(element) ==
    CASE element = "overlay" -> "onClose"
      [] element = "content" -> "stopPropagation"
      [] element = "closeButton" -> "onClose"

\* whether the click calls onClose before its propagation is stopped
RECURSIVE CallsOnClose(_)
CallsOnClose(path) ==
    IF path = <<>> THEN FALSE
    ELSE IF OnClick(Head(path)) = "stopPropagation" THEN FALSE
    ELSE OnClick(Head(path)) = "onClose" \/ CallsOnClose(Tail(path))

\* onClose={() => setSelectedRecipe(null)}
ModalClick(target) ==
    /\ variant = "server"
    /\ OverlayOpen
    /\ selectedRecipe' =
           IF CallsOnClose(BubblePath(target)) THEN NoRecipe ELSE selectedRecipe
    /\ hist' = [op |-> target, page |-> currentPage, len |-> Len(recipes)]
    /\ UNCHANGED <<variant, mounted, resultVars, queryVars, inflight,
                   nFetches, resultOf>>

\* ============================================ client-paginated variant
\* fetch('https://dummyjson.com/recipes?limit=0')
ClientUrl ==
    [path |-> "/recipes", q |-> "", limit |-> LimitAll, skip |-> 0,
     sortBy |-> "", order |-> ""]

\* const indexOfLastRecipe = currentPage * RECIPES_PER_PAGE
IndexOfLastRecipe(page) == page * RECIPES_PER_PAGE
\* const indexOfFirstRecipe = indexOfLastRecipe - RECIPES_PER_PAGE
IndexOfFirstRecipe(page) == IndexOfLastRecipe(page) - RECIPES_PER_PAGE
\* const currentRecipes = recipes.slice(indexOfFirstRecipe, indexOfLastRecipe)
CurrentRecipes(all, page) ==
    Slice(all, IndexOfFirstRecipe(page), IndexOfLastRecipe(page))
\* const totalPages = Math.ceil(recipes.length / RECIPES_PER_PAGE)
ClientTotalPages == MathCeilDiv(Len(recipes), RECIPES_PER_PAGE)

\* the buttons are rendered past the two early returns, each with its
\* `disabled`
ClientPrevEnabled == Rendered /\ currentPage # 1
ClientNextEnabled == Rendered /\ currentPage # ClientTotalPages

\* the effect with the empty dependency array: setLoading(true), the fetch
ClientMount ==
    /\ variant = "client"
    /\ ~mounted
    /\ mounted' = TRUE
    /\ loading' = TRUE
    /\ inflight' = {Fetch(nFetches + 1, ClientUrl)}
    /\ nFetches' = nFetches + 1
    /\ hist' = [op |-> "mount", page |-> currentPage, len |-> Len(recipes)]
    /\ UNCHANGED <<variant, recipes, error, totalPages, queryVars,
                   selectedRecipe, resultOf>>

\* setRecipes(data.recipes); finally setLoading(false)
ClientFetchOk(f, total) ==
    /\ variant = "client"
    /\ f \in inflight
    /\ recipes' = ApiData(f, total).recipes
    /\ loading' = FALSE
    /\ inflight' = inflight \ {f}
    /\ resultOf' = f.id
    /\ hist' = [op |-> "ok", page |-> currentPage, len |-> Len(recipes)]
    /\ UNCHANGED <<variant, mounted, error, totalPages, queryVars,
                   selectedRecipe, nFetches>>

\* setError(...); finally setLoading(false)
ClientFetchFail(f, e) ==
    /\ variant = "client"
    /\ f \in inflight
    /\ error' = CatchMessage(e)
    /\ loading' = FALSE
    /\ inflight' = inflight \ {f}
    /\ resultOf' = f.id
    /\ hist' = [op |-> "fail", page |-> currentPage, len |-> Len(recipes)]
    /\ UNCHANGED <<variant, mounted, recipes, totalPages, queryVars,
                   selectedRecipe, nFetches>>

ClientPrev ==
    /\ variant = "client"
    /\ ClientPrevEnabled
    /\ currentPage' = PrevPage(currentPage)
    /\ hist' = [op |-> "prev", page |-> currentPage, len |-> Len(recipes)]
    /\ UNCHANGED <<variant, mounted, resultVars, searchQuery, sortBy,
                   sortOrder, selectedRecipe, inflight, nFetches, resultOf>>

ClientNext ==
    /\ variant = "client"
    /\ ClientNextEnabled
    /\ currentPage' = NextPage(currentPage, ClientTotalPages)
    /\ hist' = [op |-> "next", page |-> currentPage, len |-> Len(recipes)]
    /\ UNCHANGED <<variant, mounted, resultVars, searchQuery, sortBy,
                   sortOrder, selectedRecipe, inflight, nFetches, resultOf>>

\* ------------------------------------------------------ specification
Next ==
    \/ ServerMount
    \/ \E v \in SearchTexts : SearchChange(v)
    \/ \E v \in SortFields : SortByChange(v)
    \/ \E v \in SortOrders : SortOrderChange(v)
    \/ ServerPrev
    \/ ServerNext
    \/ \E f \in inflight, t \in ServerTotals : FetchRecipesOk(f, t)
    \/ \E f \in inflight, e \in Thrown : FetchRecipesFail(f, e)
    \/ \E r \in 1..MaxTotal : CardClick(r)
    \/ \E t \in ClickTargets : ModalClick(t)
    \/ ClientMount
    \/ \E f \in inflight, t \in ClientTotals : ClientFetchOk(f, t)
    \/ \E f \in inflight, e \in Thrown : ClientFetchFail(f, e)
    \/ ClientPrev
    \/ ClientNext

Spec == Init /\ [][Next]_vars

\* ========================================================= properties
\* the total pages the render shows: derived in the client variant, state
\* in the server variant
TotalPagesShown == IF variant = "client" THEN ClientTotalPages ELSE totalPages

Range(s) == {s[i] : i \in DOMAIN s}

RECURSIVE ConcatPages(_, _, _)
\* the pages 1..tp of W, one after the other
ConcatPages(W(_), p, tp) ==
    IF p > tp THEN <<>> ELSE W(p) \o ConcatPages(W, p + 1, tp)

\* tp is the ceiling of n / RECIPES_PER_PAGE, and the windows W(1..tp) hold
\* at most a page each, are pairwise disjoint and make up `all` in order
Partitions(all, W(_), tp) ==
    /\ tp * RECIPES_PER_PAGE >= Len(all)
    /\ tp > 0 => (tp - 1) * RECIPES_PER_PAGE < Len(all)
    /\ \A p \in 1..tp : Len(W(p)) <= RECIPES_PER_PAGE
    /\ \A p, q \in 1..tp : p # q => Range(W(p)) \cap Range(W(q)) = {}
    /\ ConcatPages(W, 1, tp) = all

\* ---------------------------------------------------------------- C1
\* C1: a fetch that completes with a non-2xx status leaves, whatever the
\* result state before it, no recipes, zero total pages and an error message
\* that contains the status code.
C1_FailureReplacesResult ==
    [][\A f \in inflight, s \in ErrStatuses :
          (FetchRecipesFail(f, HttpError(s)) \/ ClientFetchFail(f, HttpError(s)))
          => /\ recipes' = <<>>
             /\ TotalPagesShown' = 0
             /\ \E i \in DOMAIN error' : error'[i] = ToString(s)]_vars

\* a 500 has just replaced a result that held recipes
C1_Witness ==
    /\ hist.op = "fail"
    /\ hist.len > 0
    /\ error = HttpErrorMessage(500)
    /\ recipes = <<>>
    /\ totalPages = 0

\* ---------------------------------------------------------------- C2
\* C2: from the dispatch of a fetch until its completion is applied the
\* loading flag is true.
C2_LoadingWhileInFlight == inflight # {} => loading

\* ---------------------------------------------------------------- C3
\* C3: a change of the search text sets the current page to 1, and the
\* fetch it triggers asks for that text at offset 0.
C3_SearchResetsPage ==
    [][\A v \in SearchTexts :
          SearchChange(v)
          => /\ currentPage' = 1
             /\ inflight' \ inflight # {}
             /\ \A f \in inflight' \ inflight :
                   f.url.skip = 0 /\ f.url.q = v]_vars

\* the search text has just changed on a page past the first
C3_Witness ==
    /\ hist.op = "search"
    /\ hist.page > 1
    /\ currentPage = 1
    /\ \E f \in inflight : f.id = nFetches /\ f.url.skip = 0

\* ---------------------------------------------------------------- C4
\* C4: the current page is never below 1, and a 'next' never leaves it above
\* the total pages.
C4_PageClamped ==
    /\ currentPage >= 1
    /\ hist.op = "next" => currentPage <= TotalPagesShown

\* ---------------------------------------------------------------- C5
\* the steps of the server variant that dispatch a fetch
DispatchOps == {"mount", "search", "sort", "prev", "next"}

\* C5: total pages is the ceiling of n / 6 and the page windows (the client's
\* slice of its list, the server's answer to limit=6, skip=(p-1)*6 as the
\* query just dispatched requests them) hold at most 6 records each, are
\* disjoint and cover the n records in order; the fetch dispatched last
\* requests the window of the current page.
C5_PagesPartition ==
    /\ (variant = "client" /\ Rendered)
       => Partitions(recipes, LAMBDA p : CurrentRecipes(recipes, p),
                     ClientTotalPages)
    /\ variant = "server"
       => /\ hist.op \in DispatchOps
             => \A n \in 0..MaxTotal :
                Partitions(Catalog(n),
                           LAMBDA p : ApiData(Fetch(0, Url(p, searchQuery,
                                                  sortBy, sortOrder)), n).recipes,
                           MathCeilDiv(n, RECIPES_PER_PAGE))
          /\ \A f \in inflight :
                f.id = nFetches
                => f.url = Url(currentPage, searchQuery, sortBy, sortOrder)
          /\ hist.op = "ok" => Len(recipes) <= RECIPES_PER_PAGE

\* 13 recipes, 3 pages, and the third page shows exactly one record
C5_Witness ==
    /\ variant = "client"
    /\ Rendered
    /\ Len(recipes) = 13
    /\ ClientTotalPages = 3
    /\ currentPage = 3
    /\ CurrentRecipes(recipes, currentPage) = <<13>>

\* ---------------------------------------------------------------- C6
\* C6: with total pages 1 or 0 neither 'previous' nor 'next' can be taken.
C6_NoPagingOnOnePage ==
    (mounted /\ TotalPagesShown <= 1)
    => IF variant = "client"
       THEN ~ClientPrevEnabled /\ ~ClientNextEnabled
       ELSE ~PrevEnabled /\ ~NextEnabled

\* ---------------------------------------------------------------- C7
\* a change of a Query State field by the user
QueryChange ==
    \/ \E v \in SearchTexts : SearchChange(v)
    \/ \E v \in SortFields : SortByChange(v)
    \/ \E v \in SortOrders : SortOrderChange(v)
    \/ ServerPrev
    \/ ServerNext
    \/ ClientPrev
    \/ ClientNext

\* C7: in the failure state (an error recorded, no fetch in flight) the user
\* can still change a Query State field.
C7_FailureNotDeadEnd ==
    (error # NoError /\ inflight = {} /\ nFetches < MaxFetches)
    => ENABLED QueryChange

\* ---------------------------------------------------------------- C8
\* the result state holds an outcome of fetch f
ResultIsOutcomeOf(f) ==
    \/ error # NoError /\ recipes = <<>> /\ totalPages = 0
    \/ \E t \in ServerTotals :
          /\ recipes = ApiData(f, t).recipes
          /\ totalPages = MathCeilDiv(t, RECIPES_PER_PAGE)

C9_Selection ==
    [][/\ \A r \in 1..MaxTotal :
             CardClick(r) => selectedRecipe' = r /\ OverlayOpen'
       /\ ModalClick("overlay") => selectedRecipe' = NoRecipe /\ ~OverlayOpen'
       /\ ModalClick("closeButton") => selectedRecipe' = NoRecipe /\ ~OverlayOpen'
       /\ ModalClick("content")
          => selectedRecipe' = selectedRecipe /\ OverlayOpen'
       /\ selectedRecipe' # selectedRecipe
          => hist'.op \in {"card", "overlay", "closeButton"}
       /\ selectedRecipe' \in {NoRecipe} \cup 1..MaxTotal]_vars

\* a click inside the content of the open overlay has just been handled
C9_Witness ==
    /\ hist.op = "content"
    /\ selectedRecipe # NoRecipe
    /\ OverlayOpen

\* --------------------------------------------------------------- C10
\* C10: in the server variant a recorded error implies no recipes and zero
\* total pages, and recipes imply no recorded error.
C10_ErrorExcludesData ==
    variant = "server"
    => /\ error # NoError => recipes = <<>> /\ totalPages = 0
       /\ recipes # <<>> => error = NoError

====
